---- MODULE Spec2Model ----
(***************************************************************************)
(* Model of the gcli application core (src/app.go): the command catalog   *)
(* (names, commands, moduleCommands, aliases, nameMaxLength), the hook     *)
(* registry embedded in App (SimpleHooks) and the global verbosity level.  *)
(*                                                                         *)
(* Strings the code inspects character by character (command names) are   *)
(* sequences of one-character strings, so that strings.TrimSpace,          *)
(* strings.Index and the slice c.Name[:i] are computed, not assumed.       *)
(* Command values are heap objects addressed by a pointer (a number): the  *)
(* maps of the catalog hold pointers, as the Go maps hold *Command.        *)
(***************************************************************************)
EXTENDS Integers, Sequences, FiniteSets, TLC

VARIABLES
    pc,             \* "config": inside NewApp, before its call of Initialize;
                    \* "ready": NewApp has returned; "fatal": exitWithErr ended
                    \* the process; "panic": a write to the nil names map did
    names,          \* App.names: name -> length
    namesNil,       \* App.names is the nil map (NewApp does not make it)
    commands,       \* App.commands: name -> *Command
    moduleCommands, \* App.moduleCommands: module -> (name -> *Command)
    aliases,        \* App.aliases: alias -> name
    nameMaxLength,  \* App.nameMaxLength
    cmd,            \* the heap of Command objects: pointer -> fields
    hooks,          \* SimpleHooks: event name -> sequence of handlers
    verbose,        \* the global verbosity threshold
    registered,     \* history: the names AddCommand has stored so far
    regs,           \* history: the handler registrations asked for, in order
    last            \* the most recent operation and what it was seen to do

vars == <<pc, names, namesNil, commands, moduleCommands, aliases,
          nameMaxLength, cmd, hooks, verbose, registered, regs, last>>

(***************************************************************************)
(* Program constants                                                       *)
(***************************************************************************)
VerbQuiet == 0
VerbError == 1
VerbWarn  == 2
VerbInfo  == 3
VerbDebug == 4
VerbCrazy == 5

EvtInit   == "init"
EvtBefore == "before"
EvtAfter  == "after"
EvtError  == "error"

DefaultNameMaxLength == 12

(***************************************************************************)
(* Bounds and input sets                                                   *)
(***************************************************************************)
LongLen     == 13   \* length of the long command name (above the floor 12)
MaxHandlers == 2    \* handlers the application registers with On
MaxMore     == 1    \* length of the variadic tail of Add
MaxInits    == 2    \* calls of Initialize (NewApp makes one of them)
MaxTail     == 2    \* length of the variadic tail of Add, for batches alone

Cmds == {1, 2}      \* the Command objects the application creates

Rep(ch, n) == [i \in 1..n |-> ch]

LongName == <<"m", ":", "b", ":">> \o Rep("x", LongLen - 4)

\* the names the application gives its commands: empty after trimming, a
\* colon at position 0, surrounded by spaces, with a module, and a long
\* name with a module and a second colon
RawNames ==
    { <<" ">>,
      <<":", "a">>,
      <<" ", "a", " ">>,
      <<"m", ":", "a">>,
      LongName }

AliasLists == { <<>>, <<"f">>, <<"f", "g">> }

\* the names registrations of different lengths use
LengthNames == { <<" ", "a", " ">>, <<"m", ":", "a">>, LongName }

\* the names batches are made of: one empty after trimming, two valid ones
BatchNames == { <<" ">>, <<"a">>, <<"m", ":", "a">> }

\* the canonical names aliases are registered for
AliasTargets == { <<"a">>, <<"m", ":", "a">> }

Levels == VerbQuiet..VerbCrazy

\* the events hook registrations and fires are tried on
Events == {EvtInit, EvtError}

\* the event the dispatcher fires around commands
DispatchEvents == {EvtBefore}

defaultErrHandler == "defaultErrHandler"

\* the source object fireEvent passes (the App), the nil payload, and the
\* payload the dispatcher passes with its events
App == "app"

Nil == "nil"

Payloads == {"args"}

UserHandlers == {"H1", "H2"}

\* handlers of the application that act on the verbosity level and the log
quietHandler == "quietHandler"

debugHandler == "debugHandler"

logHandler == "logHandler"

ActingHandlers == {quietHandler, debugHandler, logHandler}

(***************************************************************************)
(* Maps                                                                    *)
(***************************************************************************)
EmptyMap == <<>>

Put(m, k, v) == [x \in (DOMAIN m) \cup {k} |-> IF x = k THEN v ELSE m[x]]

Has(m, k) == k \in DOMAIN m

Range(m) == {m[x] : x \in DOMAIN m}

(***************************************************************************)
(* strings.TrimSpace, strings.Index, len                                   *)
(***************************************************************************)
IsSpace(ch) == ch \in {" ", "\t", "\n"}

RECURSIVE TrimLeft(_)
TrimLeft(s) ==
    IF s # <<>> /\ IsSpace(Head(s)) THEN TrimLeft(Tail(s)) ELSE s

RECURSIVE TrimRight(_)
TrimRight(s) ==
    IF s # <<>> /\ IsSpace(s[Len(s)])
    THEN TrimRight(SubSeq(s, 1, Len(s) - 1))
    ELSE s

TrimSpace(s) == TrimRight(TrimLeft(s))

\* the 0-based index of the first occurrence of ch in s, -1 if there is none
Index(s, ch) ==
    LET hits == {i \in 1..Len(s) : s[i] = ch}
    IN IF hits = {} THEN -1
       ELSE (CHOOSE i \in hits : \A j \in hits : i <= j) - 1

\* the Go slice s[:i]
Prefix(s, i) == SubSeq(s, 1, i)

(***************************************************************************)
(* The operations below are written over a record st holding the program's *)
(* state, so that one handler can call another (Add calls AddCommand,      *)
(* NewApp calls Initialize, Initialize calls fireEvent).  st.logs and      *)
(* st.calls collect what the running operation passes to Logf and which    *)
(* handlers it invokes; st.fires, st.adds and st.inits collect the events  *)
(* it fires, the entries Add calls AddCommand for, and what each entry's   *)
(* initialization routine finds when it starts.                            *)
(***************************************************************************)
Cur ==
    [pc |-> pc, names |-> names, namesNil |-> namesNil, commands |-> commands,
     moduleCommands |-> moduleCommands, aliases |-> aliases,
     nameMaxLength |-> nameMaxLength, cmd |-> cmd, hooks |-> hooks,
     verbose |-> verbose, registered |-> registered,
     logs |-> <<>>, calls |-> <<>>, fires |-> <<>>, adds |-> <<>>,
     inits |-> <<>>]

Running(st) == st.pc \in {"config", "ready"}

(***************************************************************************)
(* Collaborators of app.go that are not part of it                         *)
(***************************************************************************)
\* Logf(level, ...): the message reaches the sink iff level <= threshold
Logf(st, level) ==
    [st EXCEPT !.logs = Append(@, [level |-> level, out |-> level <= st.verbose])]

\* exitWithErr: report and end the process
exitWithErr(st) == [st EXCEPT !.pc = "fatal"]

\* Command.IsDisabled
IsDisabled(st, c) == st.cmd[c].Disabled

\* Command.initialize: opaque to the catalog; recorded as having run, with
\* the catalog and the back-reference it finds when it starts
initialize(st, c) ==
    [st EXCEPT !.cmd[c].inited = TRUE,
               !.inits = Append(@, [c |-> c, names |-> st.names,
                                    commands |-> st.commands,
                                    nameMaxLength |-> st.nameMaxLength,
                                    moduleCommands |-> st.moduleCommands,
                                    aliases |-> st.aliases,
                                    app |-> st.cmd[c].app])]

\* aliases[alias] = name for each alias of the list, in order
RECURSIVE AddAliases(_, _, _)
AddAliases(st, name, list) ==
    IF list = <<>> THEN st
    ELSE AddAliases([st EXCEPT !.aliases = Put(@, Head(list), name)],
                    name, Tail(list))

HandlersOf(st, event) ==
    IF Has(st.hooks, event) THEN st.hooks[event] ELSE <<>>

\* SimpleHooks.On: append the handler to the event's list
HooksOn(st, event, h) ==
    [st EXCEPT !.hooks = Put(@, event, Append(HandlersOf(st, event), h))]

\* SimpleHooks.Add, as Initialize uses it to install the default handler
HooksAdd(st, event, h) == HooksOn(st, event, h)

\* the package-level SetDebugMode, SetQuietMode, SetVerbose
GlobalSetVerbose(st, level) == [st EXCEPT !.verbose = level]

\* SetDebugMode with a bug: the level is Debug, not the highest one
SetDebugModeAsDebug(st) == GlobalSetVerbose(st, VerbDebug)

\* App.SetDebugMode, App.SetQuietMode, App.SetVerbose
SetDebugMode(st) == GlobalSetVerbose(st, VerbCrazy)

SetQuietMode(st) == GlobalSetVerbose(st, VerbQuiet)

SetVerbose(st, level) == GlobalSetVerbose(st, level)

\* what a handler of the application does when it runs: quietHandler and
\* debugHandler change the verbosity through the App, logHandler logs at
\* Info; the other handlers touch nothing this core holds
HandlerBody(st, h) ==
    IF h = quietHandler THEN SetQuietMode(st)
    ELSE IF h = debugHandler THEN SetDebugMode(st)
    ELSE IF h = logHandler THEN Logf(st, VerbInfo)
    ELSE st

\* one handler runs: the registry passes it the source object and the payload
Invoke(st, event, h) ==
    HandlerBody([st EXCEPT !.calls = Append(@, [event |-> event, handler |-> h])],
                h)

RECURSIVE InvokeAll(_, _, _)
InvokeAll(st, event, hs) ==
    IF hs = <<>> THEN st
    ELSE InvokeAll(Invoke(st, event, Head(hs)), event, Tail(hs))

\* SimpleHooks.Fire: every handler of the event, in registration order, is
\* passed the source object and the payload; the fire is recorded with the
\* names map and the registry it finds
HooksFire(st, event, obj, data) ==
    InvokeAll([st EXCEPT !.fires = Append(@, [event |-> event, obj |-> obj,
                                              data |-> data,
                                              namesNil |-> st.namesNil,
                                              hooks |-> st.hooks])],
              event, HandlersOf(st, event))

(***************************************************************************)
(* app.go                                                                  *)
(***************************************************************************)
\* fireEvent with a bug: the threshold is put back when the fire returns
fireEventRestoresVerbose(st, event, data) ==
    [HooksFire(Logf(st, VerbDebug), event, App, data) EXCEPT !.verbose = st.verbose]

\* fireEvent with a bug: the event is logged and not fired
fireEventLogOnly(st, event, data) == Logf(st, VerbDebug)

\* App.fireEvent
fireEvent(st, event, data) == HooksFire(Logf(st, VerbDebug), event, App, data)

\* App.On
On(st, event, h) == HooksOn(Logf(st, VerbDebug), event, h)

\* Initialize with a bug: the default error handler is not installed
InitializeNoDefault(st) ==
    fireEvent([st EXCEPT !.names = EmptyMap, !.namesNil = FALSE], EvtInit, Nil)

\* App.Initialize
Initialize(st) ==
    LET st1 == [st EXCEPT !.names = EmptyMap, !.namesNil = FALSE]
        st2 == HooksAdd(st1, EvtError, defaultErrHandler)
    IN fireEvent(st2, EvtInit, Nil)

\* StoreNames with a bug: a name already registered keeps its first entry
StoreNamesKeepFirst(st, c) ==
    LET name == st.cmd[c].Name
    IN [st EXCEPT !.names = Put(@, name, Len(name)),
                  !.commands = IF Has(@, name) THEN @ ELSE Put(@, name, c),
                  !.registered = @ \cup {name}]

\* App.AddCommand, lines 213-217: the entry goes into names and commands
StoreNames(st, c) ==
    LET name    == st.cmd[c].Name
        nameLen == Len(name)
    IN [st EXCEPT !.names = Put(@, name, nameLen),
                  !.commands = Put(@, name, c),
                  !.registered = @ \cup {name}]

\* RecordMaxLength with a bug: the length is stored without the comparison
RecordMaxLengthAlways(st, c) ==
    [st EXCEPT !.nameMaxLength = Len(st.cmd[c].Name)]

\* App.AddCommand, lines 219-222
RecordMaxLength(st, c) ==
    LET nameLen == Len(st.cmd[c].Name)
    IN IF nameLen > st.nameMaxLength
       THEN [st EXCEPT !.nameMaxLength = nameLen]
       ELSE st

\* StoreModule with a bug: the bucket is made anew for every entry
StoreModuleFreshBucket(st, c) ==
    LET name   == st.cmd[c].Name
        module == st.cmd[c].Module
    IN [st EXCEPT !.moduleCommands = Put(@, module, Put(EmptyMap, name, c))]

\* App.AddCommand, lines 224-227: the entry goes into its module's bucket
StoreModule(st, c) ==
    LET name   == st.cmd[c].Name
        module == st.cmd[c].Module
        st1 == IF ~Has(st.moduleCommands, module)
               THEN [st EXCEPT !.moduleCommands = Put(@, module, EmptyMap)]
               ELSE st
    IN [st1 EXCEPT !.moduleCommands = Put(@, module, Put(@[module], name, c))]

\* StoreAliases with a bug: the aliases are registered for the module
StoreAliasesForModule(st, c) ==
    Logf(AddAliases(st, st.cmd[c].Module, st.cmd[c].Aliases), VerbDebug)

\* App.AddCommand, lines 229-231
StoreAliases(st, c) ==
    Logf(AddAliases(st, st.cmd[c].Name, st.cmd[c].Aliases), VerbDebug)

\* App.AddCommand, lines 233-236
InitCommand(st, c) == initialize([st EXCEPT !.cmd[c].app = TRUE], c)

\* Store with a bug: the initialization routine runs before the aliases
\* are registered
StoreInitBeforeAliases(st, c) ==
    StoreAliases(InitCommand(StoreModule(RecordMaxLength(StoreNames(st, c), c), c), c), c)

\* App.AddCommand, lines 213-236: what follows the checks
Store(st, c) ==
    InitCommand(StoreAliases(StoreModule(RecordMaxLength(StoreNames(st, c), c), c), c), c)

\* the 0-based index of the last occurrence of ch in s, -1 if there is none
LastIndex(s, ch) ==
    LET hits == {i \in 1..Len(s) : s[i] = ch}
    IN IF hits = {} THEN -1
       ELSE (CHOOSE i \in hits : \A j \in hits : i >= j) - 1

\* AddCommand with a bug: the name is not trimmed
AddCommandNoTrim(st, c) ==
    LET name == st.cmd[c].Name
        i    == Index(name, ":")
        st2  == [st EXCEPT !.cmd[c].Module =
                               IF i > -1 THEN Prefix(name, i) ELSE <<>>]
    IN IF name = <<>> THEN exitWithErr(st)
       ELSE IF IsDisabled(st, c) THEN Logf(st, VerbDebug)
       ELSE IF i = 0 THEN exitWithErr(st)
       ELSE IF st2.namesNil THEN [st2 EXCEPT !.pc = "panic"]
       ELSE Store(st2, c)

\* AddCommand with a bug: the check for a colon at position 0 is missing
AddCommandNoColonCheck(st, c) ==
    LET name == TrimSpace(st.cmd[c].Name)
        st1  == [st EXCEPT !.cmd[c].Name = name]
        i    == Index(name, ":")
        st2  == [st1 EXCEPT !.cmd[c].Module =
                                IF i > -1 THEN Prefix(name, i) ELSE <<>>]
    IN IF name = <<>> THEN exitWithErr(st1)
       ELSE IF IsDisabled(st1, c) THEN Logf(st1, VerbDebug)
       ELSE IF st2.namesNil THEN [st2 EXCEPT !.pc = "panic"]
       ELSE Store(st2, c)

\* AddCommand with a bug: the check of the Disabled flag is missing
AddCommandNoDisabledCheck(st, c) ==
    LET name == TrimSpace(st.cmd[c].Name)
        st1  == [st EXCEPT !.cmd[c].Name = name]
        i    == Index(name, ":")
        st2  == [st1 EXCEPT !.cmd[c].Module =
                                IF i > -1 THEN Prefix(name, i) ELSE <<>>]
    IN IF name = <<>> THEN exitWithErr(st1)
       ELSE IF i = 0 THEN exitWithErr(st1)
       ELSE IF st2.namesNil THEN [st2 EXCEPT !.pc = "panic"]
       ELSE Store(st2, c)

\* AddCommand with a bug: the module ends at the last colon
AddCommandLastColon(st, c) ==
    LET name == TrimSpace(st.cmd[c].Name)
        st1  == [st EXCEPT !.cmd[c].Name = name]
        i    == Index(name, ":")
        j    == LastIndex(name, ":")
        st2  == [st1 EXCEPT !.cmd[c].Module =
                                IF j > -1 THEN Prefix(name, j) ELSE <<>>]
    IN IF name = <<>> THEN exitWithErr(st1)
       ELSE IF IsDisabled(st1, c) THEN Logf(st1, VerbDebug)
       ELSE IF i = 0 THEN exitWithErr(st1)
       ELSE IF st2.namesNil THEN [st2 EXCEPT !.pc = "panic"]
       ELSE Store(st2, c)

\* AddCommand with a bug: a disabled entry is returned with its name as it
\* was given
AddCommandDisabledUntrimmed(st, c) ==
    LET name == TrimSpace(st.cmd[c].Name)
        st1  == [st EXCEPT !.cmd[c].Name = name]
        i    == Index(name, ":")
        st2  == [st1 EXCEPT !.cmd[c].Module =
                                IF i > -1 THEN Prefix(name, i) ELSE <<>>]
    IN IF name = <<>> THEN exitWithErr(st1)
       ELSE IF IsDisabled(st, c) THEN Logf(st, VerbDebug)
       ELSE IF i = 0 THEN exitWithErr(st1)
       ELSE IF st2.namesNil THEN [st2 EXCEPT !.pc = "panic"]
       ELSE Store(st2, c)

\* AddCommand with a bug: the aliases of a disabled entry are registered
AddCommandDisabledAliases(st, c) ==
    LET name == TrimSpace(st.cmd[c].Name)
        st1  == [st EXCEPT !.cmd[c].Name = name]
        i    == Index(name, ":")
        st2  == [st1 EXCEPT !.cmd[c].Module =
                                IF i > -1 THEN Prefix(name, i) ELSE <<>>]
    IN IF name = <<>> THEN exitWithErr(st1)
       ELSE IF IsDisabled(st1, c)
            THEN Logf(AddAliases(st1, name, st1.cmd[c].Aliases), VerbDebug)
       ELSE IF i = 0 THEN exitWithErr(st1)
       ELSE IF st2.namesNil THEN [st2 EXCEPT !.pc = "panic"]
       ELSE Store(st2, c)

\* AddCommand with a bug: the Disabled flag is tested before the name
AddCommandDisabledFirst(st, c) ==
    LET name == TrimSpace(st.cmd[c].Name)
        st1  == [st EXCEPT !.cmd[c].Name = name]
        i    == Index(name, ":")
        st2  == [st1 EXCEPT !.cmd[c].Module =
                                IF i > -1 THEN Prefix(name, i) ELSE <<>>]
    IN IF IsDisabled(st1, c) THEN Logf(st1, VerbDebug)
       ELSE IF name = <<>> THEN exitWithErr(st1)
       ELSE IF i = 0 THEN exitWithErr(st1)
       ELSE IF st2.namesNil THEN [st2 EXCEPT !.pc = "panic"]
       ELSE Store(st2, c)

\* App.AddCommand
AddCommand(st, c) ==
    LET name == TrimSpace(st.cmd[c].Name)
        st1  == [st EXCEPT !.cmd[c].Name = name]
        i    == Index(name, ":")
        st2  == [st1 EXCEPT !.cmd[c].Module =
                                IF i > -1 THEN Prefix(name, i) ELSE <<>>]
    IN IF name = <<>> THEN exitWithErr(st1)
       ELSE IF IsDisabled(st1, c) THEN Logf(st1, VerbDebug)
       ELSE IF i = 0 THEN exitWithErr(st1)
       ELSE IF st2.namesNil THEN [st2 EXCEPT !.pc = "panic"]
       ELSE Store(st2, c)

\* App.Add: AddCommand for c, then for each of more, while the process lives
RECURSIVE AddEach(_, _)
AddEach(st, cs) ==
    IF cs = <<>> \/ ~Running(st) THEN st
    ELSE AddEach(AddCommand([st EXCEPT !.adds = Append(@, Head(cs))],
                            Head(cs)),
                 Tail(cs))

\* Add with a bug: the entries of more come first
AddMoreFirst(st, c, more) == AddEach(st, more \o <<c>>)

Add(st, c, more) == AddEach(st, <<c>> \o more)

\* App.NewCommand: a new Command with the given name; its config function
\* sets the aliases and the disabled flag
NewCommand(st, c, name, al, dis) ==
    [st EXCEPT !.cmd = Put(@, c, [Name |-> name, Module |-> <<>>,
                                  Aliases |-> al, Disabled |-> dis,
                                  app |-> FALSE, inited |-> FALSE])]

\* the application sets the Disabled flag of a command it holds
Disable(st, c) == [st EXCEPT !.cmd[c].Disabled = TRUE]

(***************************************************************************)
(* The state machine                                                       *)
(***************************************************************************)
NoOp == [op |-> "NewApp", c |-> 0, more |-> <<>>, ev |-> "", data |-> Nil,
         lvl |-> 0, name |-> <<>>, list |-> <<>>, logs |-> <<>>,
         calls |-> <<>>, fires |-> <<>>, adds |-> <<>>, inits |-> <<>>]

\* the operation leaves the program in state st; rec says which operation
\* it was, rg is the history of registrations asked for so far
Done(st, rec, rg) ==
    /\ pc' = st.pc
    /\ names' = st.names
    /\ namesNil' = st.namesNil
    /\ commands' = st.commands
    /\ moduleCommands' = st.moduleCommands
    /\ aliases' = st.aliases
    /\ nameMaxLength' = st.nameMaxLength
    /\ cmd' = st.cmd
    /\ hooks' = st.hooks
    /\ verbose' = st.verbose
    /\ registered' = st.registered
    /\ regs' = rg
    /\ last' = [rec EXCEPT !.logs = st.logs, !.calls = st.calls,
                           !.fires = st.fires, !.adds = st.adds,
                           !.inits = st.inits]

\* NewApp, lines 100-109: the App literal; the config function, if one is
\* given, runs from here
Init ==
    /\ pc = "config"
    /\ names = EmptyMap
    /\ namesNil = TRUE
    /\ commands = EmptyMap
    /\ moduleCommands = EmptyMap
    /\ aliases = EmptyMap
    /\ nameMaxLength = DefaultNameMaxLength
    /\ cmd = EmptyMap
    /\ hooks = EmptyMap
    /\ verbose \in Levels
    /\ registered = {}
    /\ regs = <<>>
    /\ last = NoOp

Alive == pc \in {"config", "ready"}

Count(seq, S) == Cardinality({i \in DOMAIN seq : seq[i].handler \in S})

DefaultReg == [event |-> EvtError, handler |-> defaultErrHandler]

\* NewApp, lines 111-117: the config function has returned (or there is
\* none); Initialize runs and NewApp returns
NewAppInitialize ==
    /\ pc = "config"
    /\ Count(regs, {defaultErrHandler}) < MaxInits
    /\ Done([Initialize(Cur) EXCEPT !.pc = "ready"],
            [NoOp EXCEPT !.op = "NewAppInitialize"],
            Append(regs, DefaultReg))

\* Initialize is exported: the application may call it itself
CallInitialize ==
    /\ Alive
    /\ Count(regs, {defaultErrHandler})
            < MaxInits - (IF pc = "config" THEN 1 ELSE 0)
    /\ Done(Initialize(Cur), [NoOp EXCEPT !.op = "Initialize"],
            Append(regs, DefaultReg))

CallNewCommand(Names, Lists) ==
    /\ Alive
    /\ \E c \in Cmds, name \in Names, al \in Lists, dis \in BOOLEAN :
        /\ c = Cardinality(DOMAIN cmd) + 1
        /\ Done(NewCommand(Cur, c, name, al, dis),
                [NoOp EXCEPT !.op = "NewCommand", !.c = c], regs)

CallDisable ==
    /\ Alive
    /\ \E c \in DOMAIN cmd :
        /\ ~cmd[c].Disabled
        /\ Done(Disable(Cur, c), [NoOp EXCEPT !.op = "Disable", !.c = c], regs)

CallAddCommand ==
    /\ Alive
    /\ \E c \in DOMAIN cmd :
        Done(AddCommand(Cur, c), [NoOp EXCEPT !.op = "AddCommand", !.c = c],
             regs)

\* the variadic tails of Add: up to n of the commands created so far
MoreLists(n) == UNION {[1..k -> DOMAIN cmd] : k \in 0..n}

CallAdd(Tails) ==
    /\ Alive
    /\ \E c \in DOMAIN cmd, more \in Tails :
        Done(Add(Cur, c, more),
             [NoOp EXCEPT !.op = "Add", !.c = c, !.more = more], regs)

CallAddAliases ==
    /\ Alive
    /\ \E name \in AliasTargets, list \in AliasLists :
        Done(AddAliases(Cur, name, list),
             [NoOp EXCEPT !.op = "AddAliases", !.name = name, !.list = list],
             regs)

CallOn(Evs, Hs) ==
    /\ Alive
    /\ Count(regs, Hs) < MaxHandlers
    /\ \E e \in Evs, h \in Hs :
        Done(On(Cur, e, h), [NoOp EXCEPT !.op = "On", !.ev = e],
             Append(regs, [event |-> e, handler |-> h]))

\* fireEvent is called by Initialize and by the command dispatcher
CallFireEvent(Evs) ==
    /\ pc = "ready"
    /\ \E e \in Evs, data \in Payloads :
        Done(fireEvent(Cur, e, data),
             [NoOp EXCEPT !.op = "fireEvent", !.ev = e, !.data = data], regs)

CallSetDebugMode ==
    /\ Alive
    /\ Done(SetDebugMode(Cur), [NoOp EXCEPT !.op = "SetDebugMode"], regs)

CallSetQuietMode ==
    /\ Alive
    /\ Done(SetQuietMode(Cur), [NoOp EXCEPT !.op = "SetQuietMode"], regs)

CallSetVerbose ==
    /\ Alive
    /\ \E l \in Levels :
        Done(SetVerbose(Cur, l), [NoOp EXCEPT !.op = "SetVerbose", !.lvl = l],
             regs)

CallLogf ==
    /\ Alive
    /\ \E l \in Levels :
        Done(Logf(Cur, l), [NoOp EXCEPT !.op = "Logf", !.lvl = l], regs)

(***************************************************************************)
(* Specifications.  The catalog, the alias map, the hook registry and the  *)
(* verbosity level are coupled only through Initialize and through the     *)
(* Debug messages the operations log, so each specification interleaves    *)
(* the operations of one part; SpecApp interleaves registrations with      *)
(* hook registrations and fires.  The catalog operations log at Debug      *)
(* only: their specifications start from one threshold below Debug and     *)
(* from Debug.                                                             *)
(***************************************************************************)
DebugOffOrOn == {VerbError, VerbDebug}

InitDebugOffOrOn == Init /\ verbose \in DebugOffOrOn

\* the catalog: creation of commands, disabling, registration
Next ==
    \/ NewAppInitialize
    \/ CallNewCommand(RawNames, AliasLists)
    \/ CallDisable
    \/ CallAddCommand
    \/ CallAdd(MoreLists(MaxMore))

Spec == InitDebugOffOrOn /\ [][Next]_vars

\* registrations interleaved with hook registrations and fires
NextApp ==
    \/ NewAppInitialize
    \/ CallNewCommand(LengthNames, {<<>>})
    \/ CallAddCommand
    \/ CallAdd(MoreLists(MaxMore))
    \/ CallOn(DispatchEvents, {"H1"})
    \/ CallFireEvent(DispatchEvents)

SpecApp == InitDebugOffOrOn /\ [][NextApp]_vars

\* the alias map: aliases of registered commands and direct AddAliases
NextAliases ==
    \/ NewAppInitialize
    \/ CallNewCommand(AliasTargets, AliasLists)
    \/ CallAddCommand
    \/ CallAddAliases

SpecAliases == InitDebugOffOrOn /\ [][NextAliases]_vars

\* the hook registry and the verbosity level
NextHooks ==
    \/ NewAppInitialize
    \/ CallInitialize
    \/ CallOn(Events, UserHandlers)
    \/ CallFireEvent(Events)
    \/ CallSetDebugMode
    \/ CallSetQuietMode
    \/ CallSetVerbose
    \/ CallLogf

SpecHooks == Init /\ [][NextHooks]_vars

\* batches: Add with longer tails, over valid and invalid, enabled and
\* disabled entries
NextAdd ==
    \/ NewAppInitialize
    \/ CallNewCommand(BatchNames, {<<>>})
    \/ CallAdd(MoreLists(MaxTail))

SpecAdd == InitDebugOffOrOn /\ [][NextAdd]_vars

\* handlers that change the verbosity and log, run by fires
NextVerbose ==
    \/ NewAppInitialize
    \/ CallOn({EvtInit, EvtBefore}, ActingHandlers)
    \/ CallFireEvent(DispatchEvents)
    \/ CallSetVerbose
    \/ CallLogf

SpecVerbose == Init /\ [][NextVerbose]_vars

\* the life of an App: registrations, hook registrations and fires from
\* inside NewApp's configuration function on, and calls of Initialize by
\* the application
NextLife ==
    \/ NewAppInitialize
    \/ CallInitialize
    \/ CallNewCommand(AliasTargets, {<<>>})
    \/ CallAddCommand
    \/ CallAdd(MoreLists(MaxMore))
    \/ CallOn({EvtInit}, UserHandlers)
    \/ CallFireEvent(DispatchEvents)

SpecLife == InitDebugOffOrOn /\ [][NextLife]_vars

(***************************************************************************)
(* Properties                                                              *)
(***************************************************************************)
\* the step is a call AddCommand(c)
AddCommandStep(c) == last'.op = "AddCommand" /\ last'.c = c

ColonFree(s) == \A i \in 1..Len(s) : s[i] # ":"

ColonFirst(s) == s # <<>> /\ s[1] = ":"

\* the part of a name before its first colon; empty if it has no colon
ModulePrefix(n) ==
    IF ColonFree(n) THEN <<>>
    ELSE CHOOSE p \in {SubSeq(n, 1, k) : k \in 0..(Len(n) - 1)} :
            ColonFree(p) /\ n[Len(p) + 1] = ":"

\* a name AddCommand accepts: not empty after trimming, no colon in front
Valid(name) == TrimSpace(name) # <<>> /\ ~ColonFirst(TrimSpace(name))

\* C1: when AddCommand returns for an enabled entry whose trimmed name is
\* not empty and has no colon at position 0, commands maps the trimmed name
\* to that entry, names maps it to its length and nameMaxLength is at least
\* that length, whatever was registered before.
C1_AddCommandStoresEntry ==
    [][\A c \in DOMAIN cmd :
        (/\ AddCommandStep(c)
         /\ pc' \in {"config", "ready"}
         /\ ~cmd[c].Disabled
         /\ Valid(cmd[c].Name))
        => LET n == TrimSpace(cmd[c].Name)
           IN /\ n \in DOMAIN commands' /\ commands'[n] = c
              /\ n \in DOMAIN names' /\ names'[n] = Len(n)
              /\ nameMaxLength' >= Len(n)]_vars

\* a second entry, given with spaces around its name, has just been stored
C1_Witness ==
    /\ last.op = "AddCommand" /\ last.c = 2 /\ pc = "ready"
    /\ cmd[2].Name = <<"a">> /\ ~cmd[2].Disabled /\ cmd[2].inited
    /\ LongName \in DOMAIN commands
    /\ <<"a">> \in DOMAIN commands /\ commands[<<"a">>] = 2

\* C2 as claimed: every AddCommand whose name is empty after trimming or has
\* a colon at position 0 ends in the fatal abort, with commands, names,
\* moduleCommands and aliases as they were before the call.
C2_Original ==
    [][\A c \in DOMAIN cmd :
        (/\ AddCommandStep(c)
         /\ (TrimSpace(cmd[c].Name) = <<>> \/ ColonFirst(TrimSpace(cmd[c].Name))))
        => /\ pc' = "fatal"
           /\ UNCHANGED <<commands, names, moduleCommands, aliases>>]_vars

\* C2 as amended: every AddCommand whose name is empty after trimming, or
\* whose entry is enabled and has a colon at position 0 of the trimmed name,
\* ends in the fatal abort with the four maps unchanged; a disabled entry
\* whose name starts with a colon is skipped without an abort, also with the
\* four maps unchanged.
C2_FatalOnInvalidName ==
    [][\A c \in DOMAIN cmd :
        (/\ AddCommandStep(c)
         /\ (TrimSpace(cmd[c].Name) = <<>> \/ ColonFirst(TrimSpace(cmd[c].Name))))
        => /\ pc' = "fatal" <=>
                (TrimSpace(cmd[c].Name) = <<>> \/ ~cmd[c].Disabled)
           /\ pc' \in {"fatal", pc}
           /\ UNCHANGED <<commands, names, moduleCommands, aliases>>]_vars

\* an enabled entry named ":a" has ended a process that had a command stored
C2_Witness ==
    /\ pc = "fatal" /\ last.op = "AddCommand"
    /\ ColonFirst(cmd[last.c].Name) /\ ~cmd[last.c].Disabled
    /\ commands # EmptyMap

\* C3 as claimed: after AddCommand with a disabled entry that entry is not a
\* value of commands, also when it had been registered while enabled before.
C3_Original ==
    (last.op = "AddCommand" /\ pc \in {"config", "ready"} /\ cmd[last.c].Disabled)
    => last.c \notin Range(commands)

\* C3 as amended: AddCommand with a disabled entry stores nothing: commands
\* and names are after the call what they were before it.
C3_DisabledAddsNothing ==
    [][\A c \in DOMAIN cmd :
        (AddCommandStep(c) /\ cmd[c].Disabled)
        => UNCHANGED <<commands, names>>]_vars

\* a disabled entry was skipped whose name another, enabled entry holds
C3_Witness ==
    /\ last.op = "AddCommand" /\ pc = "ready" /\ cmd[last.c].Disabled
    /\ last.c \notin Range(commands)
    /\ cmd[last.c].Name \in DOMAIN commands
    /\ last.logs # <<>>

\* C4: after a successful AddCommand the entry's Module is the part of its
\* name before the first colon (empty without a colon), and always every key
\* n of commands is a key of the bucket of that part of n, with the same
\* entry.
C4_ModuleBuckets ==
    /\ (last.op = "AddCommand" /\ pc \in {"config", "ready"}
            /\ ~cmd[last.c].Disabled)
        => cmd[last.c].Module = ModulePrefix(cmd[last.c].Name)
    /\ \A n \in DOMAIN commands :
        LET m == ModulePrefix(n)
        IN /\ m \in DOMAIN moduleCommands
           /\ n \in DOMAIN moduleCommands[m]
           /\ moduleCommands[m][n] = commands[n]

\* the name with two colons has just been stored under module "m"
C4_Witness ==
    /\ last.op = "AddCommand" /\ pc = "ready"
    /\ cmd[last.c].Name = LongName /\ cmd[last.c].Module = <<"m">>
    /\ LongName \in DOMAIN commands
    /\ <<"m">> \in DOMAIN moduleCommands
    /\ LongName \in DOMAIN moduleCommands[<<"m">>]

\* C5: registering an enabled entry under a name that is registered already
\* leaves the key sets of commands and of the module bucket as they were,
\* makes the new entry the value in both, and keeps the name in names.
C5_ReRegistrationReplaces ==
    [][\A c \in DOMAIN cmd :
        (/\ AddCommandStep(c)
         /\ pc' \in {"config", "ready"}
         /\ ~cmd[c].Disabled
         /\ Valid(cmd[c].Name)
         /\ TrimSpace(cmd[c].Name) \in DOMAIN commands)
        => LET n == TrimSpace(cmd[c].Name)
               m == ModulePrefix(n)
           IN /\ DOMAIN commands' = DOMAIN commands
              /\ commands'[n] = c
              /\ DOMAIN moduleCommands' = DOMAIN moduleCommands
              /\ DOMAIN moduleCommands'[m] = DOMAIN moduleCommands[m]
              /\ moduleCommands'[m][n] = c
              /\ n \in DOMAIN names']_vars

\* entry 2 has replaced entry 1, registered before under the same name
C5_Witness ==
    /\ last.op = "AddCommand" /\ last.c = 2 /\ pc = "ready"
    /\ 1 \in DOMAIN cmd /\ cmd[1].inited /\ ~cmd[2].Disabled
    /\ cmd[1].Name = cmd[2].Name
    /\ cmd[2].Name \in DOMAIN commands /\ commands[cmd[2].Name] = 2
    /\ Cardinality(DOMAIN commands) = 1

\* a call that sets aliases[a] = name for every a of list changes aliases
\* in this way
AliasWrite(name, list) ==
    \A a \in (DOMAIN aliases) \cup (DOMAIN aliases') \cup Range(list) :
        IF a \in Range(list)
        THEN a \in DOMAIN aliases' /\ aliases'[a] = name
        ELSE /\ a \in DOMAIN aliases' <=> a \in DOMAIN aliases
             /\ a \in DOMAIN aliases => aliases'[a] = aliases[a]

\* C6: alias registration is last-writer-wins per alias string: a call of
\* AddAliases, direct or made by AddCommand for the entry's Aliases, maps
\* every alias it lists to its canonical name and changes the mapping of no
\* alias it does not list; no other operation changes aliases.
C6_AliasLastWriterWins ==
    [][/\ \A c \in DOMAIN cmd :
            (/\ AddCommandStep(c)
             /\ pc' \in {"config", "ready"}
             /\ ~cmd[c].Disabled
             /\ Valid(cmd[c].Name))
            => AliasWrite(TrimSpace(cmd[c].Name), cmd[c].Aliases)
       /\ last'.op = "AddAliases" => AliasWrite(last'.name, last'.list)
       /\ last'.op \notin {"AddCommand", "AddAliases", "Add"}
            => UNCHANGED aliases]_vars

\* "f" was given to "a" with "g" and then to "m:a" alone
C6_Witness ==
    /\ "f" \in DOMAIN aliases /\ aliases["f"] = <<"m", ":", "a">>
    /\ "g" \in DOMAIN aliases /\ aliases["g"] = <<"a">>
    /\ last.op = "AddCommand" /\ pc = "ready"

\* the registrations asked for the event, in the order they were asked
RegisteredFor(e) == SelectSeq(regs, LAMBDA r : r.event = e)

\* C7: one fire of an event invokes every handler registered for that event
\* once, in the order the handlers were registered, and no handler of another
\* event; the fire made by Initialize does so for the init event.
C7_FireInRegistrationOrder ==
    /\ last.op = "fireEvent" => last.calls = RegisteredFor(last.ev)
    /\ last.op \in {"NewAppInitialize", "Initialize"}
        => last.calls = RegisteredFor(EvtInit)

\* H1 then H2 were registered for init, and a fire has run them in that order
\* while the error event has a handler that was not run
C7_Witness ==
    /\ last.op = "fireEvent" /\ last.ev = EvtInit
    /\ last.calls = << [event |-> EvtInit, handler |-> "H1"],
                       [event |-> EvtInit, handler |-> "H2"] >>
    /\ RegisteredFor(EvtError) # <<>>

\* the registered names, with the long one, never let nameMaxLength fall
NameMaxLengthCovers ==
    /\ nameMaxLength >= DefaultNameMaxLength
    /\ \A n \in registered : nameMaxLength >= Len(n)

\* C8: across registrations, disabled registrations, re-registrations, hook
\* registrations and fires, nameMaxLength never decreases, is at least 12 and
\* is at least the length of every name registered so far.
C8_NameMaxLengthMonotone ==
    [][/\ NameMaxLengthCovers
       /\ NameMaxLengthCovers'
       /\ nameMaxLength' >= nameMaxLength]_vars

\* a short name was registered after the long one, with a handler registered
C8_Witness ==
    /\ last.op = "AddCommand" /\ pc = "ready"
    /\ cmd[last.c].Name = <<"a">> /\ cmd[last.c].inited
    /\ registered = {<<"a">>, LongName}
    /\ nameMaxLength = LongLen
    /\ Count(regs, UserHandlers) > 0

C10_DefaultErrorHandlerInstalled ==
    pc = "ready"
    => \E i \in DOMAIN HandlersOf(Cur, EvtError) :
            HandlersOf(Cur, EvtError)[i] = defaultErrHandler

\* the application registered an error handler before and one after
\* initialization, and the default handler stands between them
C10_Witness ==
    /\ pc = "ready" /\ EvtError \in DOMAIN hooks
    /\ Len(hooks[EvtError]) = 3
    /\ hooks[EvtError][1] \in UserHandlers
    /\ hooks[EvtError][2] = defaultErrHandler
    /\ hooks[EvtError][3] \in UserHandlers

\* the fires of the init event among the fires of an operation
InitFires(fires) == SelectSeq(fires, LAMBDA f : f.event = EvtInit)

\* C11: the init event is fired once in the life of an App: by the
\* initialization NewApp runs, as its last step, when the names map exists
\* and the default error handler is installed, with the App as source and
\* the nil payload; no other operation fires init.
C11_InitFiredOnce ==
    /\ last.op = "NewAppInitialize"
        => /\ Len(last.fires) = 1
           /\ last.fires[1].event = EvtInit
           /\ last.fires[1].obj = App
           /\ last.fires[1].data = Nil
           /\ ~last.fires[1].namesNil
           /\ last.fires[1].hooks = hooks
           /\ \E i \in DOMAIN HandlersOf(Cur, EvtError) :
                    HandlersOf(Cur, EvtError)[i] = defaultErrHandler
    /\ last.op # "NewAppInitialize" => InitFires(last.fires) = <<>>

\* the entries of the most recent Add, in argument order
Entries == <<last.c>> \o last.more

C13_Original ==
    [][\A c \in DOMAIN cmd :
        (AddCommandStep(c) /\ cmd[c].Disabled /\ pc' = pc)
        => cmd'[c] = cmd[c]]_vars

\* C13 as amended: AddCommand with a disabled entry whose trimmed name is
\* not empty returns, and the entry has its Name trimmed and every other
\* field as before the call; no other entry is touched.
C13_DisabledEntryTrimmed ==
    [][\A c \in DOMAIN cmd :
        (AddCommandStep(c) /\ cmd[c].Disabled /\ TrimSpace(cmd[c].Name) # <<>>)
        => /\ pc' = pc
           /\ cmd' = [cmd EXCEPT ![c].Name = TrimSpace(cmd[c].Name)]]_vars

\* a disabled entry that was never registered has the name "a", which only
\* the trimming of " a " yields
C13_Witness ==
    /\ last.op = "AddCommand" /\ pc = "ready" /\ cmd[last.c].Disabled
    /\ cmd[last.c].Name = <<"a">> /\ <<"a">> \notin RawNames
    /\ ~cmd[last.c].inited /\ ~cmd[last.c].app
    /\ cmd[last.c].Aliases # <<>>

\* C14: AddCommand with a disabled entry whose trimmed name is not empty
\* leaves the catalog as it was: commands, names, moduleCommands with its
\* set of buckets, aliases and nameMaxLength; the entry's initialization
\* routine is not invoked.
C14_DisabledLeavesCatalog ==
    [][\A c \in DOMAIN cmd :
        (AddCommandStep(c) /\ cmd[c].Disabled /\ TrimSpace(cmd[c].Name) # <<>>)
        => /\ UNCHANGED <<commands, names, namesNil, moduleCommands, aliases,
                          nameMaxLength>>
           /\ DOMAIN moduleCommands' = DOMAIN moduleCommands
           /\ last'.inits = <<>>
           /\ cmd'[c].inited = cmd[c].inited]_vars

\* a disabled entry with a long name, a module and aliases was skipped: the
\* module has no bucket, the aliases are unknown, nameMaxLength is the floor
C14_Witness ==
    /\ last.op = "AddCommand" /\ pc = "ready" /\ cmd[last.c].Disabled
    /\ cmd[last.c].Name = LongName
    /\ cmd[last.c].Aliases # <<>>
    /\ \A i \in DOMAIN cmd[last.c].Aliases :
            cmd[last.c].Aliases[i] \notin DOMAIN aliases
    /\ ModulePrefix(LongName) \notin DOMAIN moduleCommands
    /\ commands # EmptyMap
    /\ nameMaxLength = DefaultNameMaxLength
    /\ ~cmd[last.c].inited

\* C15: the empty-name check comes before the Disabled check: AddCommand
\* with an entry whose name is empty after trimming ends in the fatal abort,
\* disabled or not; a disabled entry is skipped, the process going on, only
\* if its trimmed name is not empty.
C15_EmptyNameBeforeDisabled ==
    [][\A c \in DOMAIN cmd :
        AddCommandStep(c)
        => /\ TrimSpace(cmd[c].Name) = <<>> => pc' = "fatal"
           /\ (cmd[c].Disabled /\ pc' = pc) => TrimSpace(cmd[c].Name) # <<>>
           /\ (cmd[c].Disabled /\ TrimSpace(cmd[c].Name) # <<>>) => pc' = pc]_vars

\* a disabled entry with a blank name has ended the process
C15_Witness ==
    /\ last.op = "AddCommand" /\ pc = "fatal"
    /\ cmd[last.c].Disabled /\ cmd[last.c].Name = <<>>

\* C16: a successful AddCommand stores the entry in names and commands,
\* updates nameMaxLength, puts the entry into its module's bucket and
\* registers its aliases, sets the back-reference and only then invokes the
\* entry's initialization routine, once: when the routine starts, the entry
\* is a value of commands and of its module's bucket, names and
\* nameMaxLength account for its name, every alias of it maps to its name
\* and its back-reference is set.
C16_StoredBeforeInitialize ==
    /\ (last.op = "AddCommand" /\ pc \in {"config", "ready"}
            /\ ~cmd[last.c].Disabled)
        => Len(last.inits) = 1 /\ last.inits[1].c = last.c
    /\ \A i \in DOMAIN last.inits :
        LET s == last.inits[i]
            n == cmd[s.c].Name
            m == ModulePrefix(n)
        IN /\ n \in DOMAIN s.names /\ s.names[n] = Len(n)
           /\ n \in DOMAIN s.commands /\ s.commands[n] = s.c
           /\ s.nameMaxLength >= Len(n)
           /\ m \in DOMAIN s.moduleCommands
           /\ n \in DOMAIN s.moduleCommands[m]
           /\ s.moduleCommands[m][n] = s.c
           /\ \A j \in DOMAIN cmd[s.c].Aliases :
                /\ cmd[s.c].Aliases[j] \in DOMAIN s.aliases
                /\ s.aliases[cmd[s.c].Aliases[j]] = n
           /\ s.app

\* the initialization routine of "m:a" started with both aliases of the
\* entry mapped to "m:a", after another command had held them
C16_Witness ==
    /\ last.op = "AddCommand" /\ pc = "ready" /\ Len(last.inits) = 1
    /\ cmd[last.c].Name = <<"m", ":", "a">>
    /\ cmd[last.c].Aliases = <<"f", "g">>
    /\ last.inits[1].aliases = [f |-> <<"m", ":", "a">>, g |-> <<"m", ":", "a">>]
    /\ last.inits[1].app
    /\ <<"a">> \in DOMAIN commands
    /\ cmd[commands[<<"a">>]].Aliases # <<>>

\* the threshold a handler leaves, having found thr
ThresholdAfter(h, thr) ==
    IF h = quietHandler THEN VerbQuiet
    ELSE IF h = debugHandler THEN VerbCrazy
    ELSE thr

\* the threshold after the handlers of calls have run in order from thr
RECURSIVE FinalThreshold(_, _)
FinalThreshold(calls, thr) ==
    IF calls = <<>> THEN thr
    ELSE FinalThreshold(Tail(calls), ThresholdAfter(Head(calls).handler, thr))

\* the messages of the handlers of calls, each gated by the threshold the
\* handlers before it have left
RECURSIVE ExpectedLogs(_, _)
ExpectedLogs(calls, thr) ==
    IF calls = <<>> THEN <<>>
    ELSE (IF Head(calls).handler = logHandler
          THEN << [level |-> VerbInfo, out |-> VerbInfo <= thr] >>
          ELSE <<>>)
         \o ExpectedLogs(Tail(calls),
                         ThresholdAfter(Head(calls).handler, thr))

\* C17: a change of the threshold holds for every Logf call after it: in a
\* fire, the Debug message of fireEvent and the messages of the handlers
\* before a handler that changes the threshold are gated by the threshold
\* before the change, the messages of the handlers after it by the new one,
\* and the new threshold stands when the fire returns, so that the next
\* Logf call is gated by it.
C17_VerbosityChangeImmediate ==
    [][/\ last'.op \in {"fireEvent", "NewAppInitialize", "Initialize"}
            => /\ last'.logs
                    = << [level |-> VerbDebug, out |-> VerbDebug <= verbose] >>
                      \o ExpectedLogs(last'.calls, verbose)
               /\ verbose' = FinalThreshold(last'.calls, verbose)
       /\ last'.op = "Logf"
            => /\ last'.logs
                    = << [level |-> last'.lvl, out |-> last'.lvl <= verbose] >>
               /\ verbose' = verbose
       /\ last'.op = "SetVerbose" => verbose' = last'.lvl]_vars

\* a fire began with the threshold at Debug or above; its first handler set
\* Quiet, its second handler's Info message was suppressed, and the
\* threshold is Quiet after the fire
C17_Witness ==
    /\ last.op = "fireEvent" /\ verbose = VerbQuiet
    /\ last.calls = << [event |-> EvtBefore, handler |-> quietHandler],
                       [event |-> EvtBefore, handler |-> logHandler] >>
    /\ last.logs = << [level |-> VerbDebug, out |-> TRUE],
                      [level |-> VerbInfo, out |-> FALSE] >>

\* C18: once NewApp has returned, names and commands have the same keys and
\* names maps each key to its length, after any calls of AddCommand, Add,
\* On, fireEvent and Initialize.
C18_NamesMatchCommands ==
    pc = "ready"
    => /\ DOMAIN names = DOMAIN commands
       /\ \A n \in DOMAIN names : names[n] = Len(n)

\* C19: the buckets partition the registered commands: every key of
\* commands is a key of exactly one bucket, the bucket of the part of it
\* before its first colon (the empty-string bucket without a colon), every
\* key of every bucket is a key of commands with the same entry, and every
\* bucket has received an entry.
C19_BucketsPartitionCommands ==
    /\ \A n \in DOMAIN commands :
        /\ ModulePrefix(n) \in DOMAIN moduleCommands
        /\ \A m \in DOMAIN moduleCommands :
                n \in DOMAIN moduleCommands[m] <=> m = ModulePrefix(n)
    /\ \A m \in DOMAIN moduleCommands :
        /\ moduleCommands[m] # EmptyMap
        /\ \A n \in DOMAIN moduleCommands[m] :
                n \in DOMAIN commands /\ commands[n] = moduleCommands[m][n]

\* two buckets: the empty-string one holds "a", the bucket "m" holds the
\* long name, whose part before the first of its two colons is "m"
C19_Witness ==
    /\ pc = "ready"
    /\ DOMAIN commands = { <<"a">>, LongName }
    /\ DOMAIN moduleCommands = { <<>>, <<"m">> }
    /\ DOMAIN moduleCommands[<<>>] = { <<"a">> }
    /\ DOMAIN moduleCommands[<<"m">>] = { LongName }

\* C20: no AddCommand stores into names before Initialize has made the map,
\* not even one called from the configuration function NewApp runs before
\* Initialize; and when NewApp returns, every command registered by then
\* is a key of commands and of names.
C20_NamesMadeBeforeStore ==
    /\ pc # "panic"
    /\ last.op = "NewAppInitialize"
        => \A n \in registered : n \in DOMAIN commands /\ n \in DOMAIN names

====
